---------------------------- MODULE Spec2Model ----------------------------
(* A model of the card transaction simulator                                *)
(* src/dataInitializing/transactionSim.py.                                  *)
(*                                                                          *)
(* Units.  Python floats are modelled by scaled integers:                   *)
(*   - latitudes and longitudes that have been rounded to 6 decimals are    *)
(*     integers in microdegrees; values before rounding are integers in     *)
(*     1/SubDiv of a microdegree ("sub units");                             *)
(*   - radians, sines, cosines and other pure numbers are integers scaled   *)
(*     by Scale (1.0 is Scale);                                             *)
(*   - great-circle distances are integers in metres;                       *)
(*   - datetimes are integers in milliseconds, timedeltas likewise.         *)
EXTENDS Integers, Sequences, FiniteSets, TLC

(***************************************************************************)
(* Fixed-point arithmetic standing in for IEEE doubles.                    *)
(***************************************************************************)

\* The limb base used to multiply without overflow.
Limb == 10 ^ 4

\* 1.0 in fixed point.
Scale == Limb * Limb

Abs(x) == IF x < 0 THEN -x ELSE x

Sgn(x) == IF x < 0 THEN -1 ELSE 1

Max2(a, b) == IF a >= b THEN a ELSE b

Min2(a, b) == IF a <= b THEN a ELSE b

\* floor(a * b / Scale) for a, b >= 0, computed limb by limb.
MulU(a, b) ==
    LET a1 == a \div Limb
        a0 == a % Limb
        b1 == b \div Limb
        b0 == b % Limb
    IN  a1 * b1 + ((a1 * b0 + a0 * b1 + ((a0 * b0) \div Limb)) \div Limb)

\* The product of two fixed-point numbers (float multiplication a * b).
Mul(a, b) == Sgn(a) * Sgn(b) * MulU(Abs(a), Abs(b))

\* floor(a * 10^n / b) for a >= 0 and 0 < b < 2^31 / 10, by long division:
\* q is the quotient so far and r the remainder, n digits are still to come.
RECURSIVE LongDiv(_, _, _, _)
LongDiv(q, r, b, n) ==
    IF n = 0 THEN q
    ELSE LongDiv(10 * q + ((10 * r) \div b), (10 * r) % b, b, n - 1)

DivDigits(a, b, n) == LongDiv(a \div b, a % b, b, n)

\* The quotient of two fixed-point numbers (float division a / b), b # 0.
Div(a, b) == Sgn(a) * Sgn(b) * DivDigits(Abs(a), Abs(b), 8)

\* The largest r in lo..hi with r * r <= n (hi * hi must not overflow).
RECURSIVE ISqrtIn(_, _, _)
ISqrtIn(n, lo, hi) ==
    IF lo >= hi THEN lo
    ELSE LET mid == (lo + hi + 1) \div 2
         IN  IF mid * mid <= n THEN ISqrtIn(n, mid, hi)
             ELSE ISqrtIn(n, lo, mid - 1)

\* Integer square root of n, 0 <= n < 2^31.
ISqrt(n) == ISqrtIn(n, 0, 46340)

\* math.sqrt of a fixed-point number v >= 0: a first estimate from the
\* integer square root, refined by three Newton steps.
Sqrt(v) ==
    IF v = 0 THEN 0
    ELSE LET r0 == Max2(1, ISqrt(v) * Limb)
             r1 == (r0 + Div(v, r0)) \div 2
             r2 == (r1 + Div(v, r1)) \div 2
         IN  (r2 + Div(v, r2)) \div 2

\* The smallest power of ten k with m \div k < 30000.
RECURSIVE ScaleDown(_, _)
ScaleDown(m, k) == IF m \div k < 30000 THEN k ELSE ScaleDown(m, 10 * k)

\* sqrt(x*x + y*y) for fixed-point x, y >= 0, keeping relative precision
\* for small operands as a float does: the operands are scaled down until
\* their squares fit, and the estimate is refined by one Newton step.
Hypot(x, y) ==
    LET k  == ScaleDown(Max2(x, y), 1)
        r0 == k * ISqrt((x \div k) * (x \div k) + (y \div k) * (y \div k))
    IN  IF r0 = 0 THEN 0
        ELSE IF k = 1 THEN r0
        ELSE (r0 + Mul(Div(x, r0), x) + Mul(Div(y, r0), y)) \div 2

\* math.pi in fixed point.
Pi == 314159265

\* pi / 180 per microdegree, in fixed point (1.74532925).
RadPerMicroDeg == 174532925

\* math.radians of an angle given in microdegrees (x * pi / 180), as a
\* fixed-point number of radians.
radians(x) == Mul(x, RadPerMicroDeg)

\* Sum of the Taylor series whose current term is t (fixed point) and whose
\* next term is -t * x2 / (n * (n + 1)): sine from (x, 2), cosine from (1, 1).
RECURSIVE TrigSeries(_, _, _)
TrigSeries(t, x2, n) ==
    IF t = 0 THEN 0
    ELSE t + TrigSeries(-(Mul(t, x2) \div (n * (n + 1))), x2, n + 2)

\* math.sin and math.cos of a fixed-point angle in radians, |x| <= pi;
\* beyond pi/2 the argument is reflected about pi/2 before the series.
sin(x) ==
    LET y == IF Abs(x) > Pi \div 2 THEN Sgn(x) * (Pi - Abs(x)) ELSE x
    IN  TrigSeries(y, Mul(y, y), 2)

cos(x) ==
    IF Abs(x) > Pi \div 2
    THEN -TrigSeries(Scale, Mul(Pi - Abs(x), Pi - Abs(x)), 1)
    ELSE TrigSeries(Scale, Mul(x, x), 1)

\* Sum of p/n - p*t2/(n+2) + ... : the arctangent series from (t, t*t, 1).
RECURSIVE AtanSeries(_, _, _)
AtanSeries(p, t2, n) ==
    IF p = 0 THEN 0
    ELSE (p \div n) + AtanSeries(-Mul(p, t2), t2, n + 2)

\* atan(t) for fixed-point 0 <= t <= 1; above tan(pi/8) the argument is
\* reduced by atan(t) = pi/4 + atan((t - 1) / (t + 1)).
Atan(t) ==
    IF t <= 41421356
    THEN AtanSeries(t, Mul(t, t), 1)
    ELSE LET u == Div(t - Scale, t + Scale)
         IN  (Pi \div 4) + AtanSeries(u, Mul(u, u), 1)

\* math.atan2(y, x) for fixed-point y, x >= 0, not both zero.
atan2(y, x) ==
    IF y <= x THEN Atan(Div(y, x)) ELSE (Pi \div 2) - Atan(Div(x, y))

(***************************************************************************)
(* Geospatial helpers.                                                     *)
(***************************************************************************)

\* Microdegrees per degree: coordinates are kept to 6 decimals.
MicroDeg == 10 ^ 6

\* Sub units per microdegree for coordinates not yet rounded.
SubDiv == 4

\* Sub units per degree.
SubDeg == MicroDeg * SubDiv

\* round(x, 6) of a coordinate x in sub units: the nearest microdegree,
\* a tie going to the even one.
round6(x) ==
    LET q == x \div SubDiv
        r == x % SubDiv
    IN  IF 2 * r < SubDiv THEN q
        ELSE IF 2 * r > SubDiv THEN q + 1
        ELSE IF q % 2 = 0 THEN q ELSE q + 1

\* radius_deg_lat = max_distance_km / 111.1, in sub units, for a distance
\* given in metres.
radius_deg_lat(max_distance_m) ==
    DivDigits(max_distance_m * SubDiv, 1111, 4)

\* radius_deg_lon = max_distance_km / (111.1 * cos(radians(lat))), in sub
\* units; lat in microdegrees, the distance in metres.
radius_deg_lon(lat, max_distance_m) ==
    DivDigits(radius_deg_lat(max_distance_m), cos(radians(lat)), 8)

\* Lines 37-39 of generate_location_around: the new point for the offsets
\* delta_lat, delta_lon drawn at lines 34-35 (sub units); lat, lon in
\* microdegrees.  Returns <<new_lat, new_lon>> in microdegrees.
generate_location_around(lat, lon, delta_lat, delta_lon) ==
    LET new_lat == Max2(-90 * SubDeg, Min2(90 * SubDeg, lat * SubDiv + delta_lat))
        new_lon == ((lon * SubDiv + delta_lon + 180 * SubDeg) % (360 * SubDeg))
                       - 180 * SubDeg
    IN  <<round6(new_lat), round6(new_lon)>>

\* Earth radius in metres (R = 6371 km).
R == 6371000

\* haversine(lat1, lon1, lat2, lon2): great-circle distance in metres
\* between two points given in microdegrees.
haversine(lat1, lon1, lat2, lon2) ==
    LET dLat  == radians(lat2 - lat1)
        dLon  == radians(lon2 - lon1)
        s1    == Abs(sin(dLat \div 2))
        s2    == Abs(sin(dLon \div 2))
        cc    == Mul(cos(radians(lat1)), cos(radians(lat2)))
        \* sqrt(a), a = s1^2 + cc * s2^2
        sqa   == Min2(Scale, Hypot(s1, Mul(s2, Sqrt(cc))))
        \* sqrt(1 - a)
        sq1a  == Sqrt(Scale - Mul(sqa, sqa))
        c     == 2 * atan2(sqa, sq1a)
    IN  Mul(R, c)

(***************************************************************************)
(* Configuration (lines 10-23).                                            *)
(***************************************************************************)

\* The number of cards and of transactions of the largest configuration
\* explored (NUM_CARDS = 50 and NUM_TRANSACTIONS = 1000 in the source).
MaxCards == 2

MaxTransactions == 4

\* Probabilities and drawn fractions are in thousandths: 1.0 is Prob.
Prob == 10 ^ 3

LOCATION_VARIATION_KM_NORMAL == 50

LOCATION_VARIATION_KM_FRAUD == 5000

\* Amount ranges in cents.
NORMAL_AMOUNT_RANGE == <<500, 25000>>

FRAUD_AMOUNT_RANGE == <<10000, 200000>>

HIGH_VELOCITY_THRESHOLD_KMH == 800

\* The source's settings (lines 10-23), with the population and the run
\* length scaled down.
DefaultConfig ==
    [ NUM_CARDS                     |-> MaxCards,
      NUM_TRANSACTIONS              |-> 2,
      FRAUD_INJECTION_PROBABILITY   |-> 30,
      COMPROMISE_CARD_PROBABILITY   |-> 100,
      AVG_TRANSACTION_DELAY_SECONDS |-> 500,
      SEND_TO_KINESIS               |-> FALSE ]

\* The settings a run may be started with (the configuration constants are
\* edited in the file before a run): the default ones with and without
\* the external sink, a long run over two compromised cards, a single
\* card, no compromised card, one fraudulent transaction on one card, and
\* three invalid ones (no card, a probability above 1, a zero delay).
Configs ==
    { DefaultConfig,
      [DefaultConfig EXCEPT !.SEND_TO_KINESIS = TRUE],
      [DefaultConfig EXCEPT !.NUM_CARDS = 2,
                            !.NUM_TRANSACTIONS = MaxTransactions,
                            !.COMPROMISE_CARD_PROBABILITY = Prob],
      [DefaultConfig EXCEPT !.NUM_CARDS = 1,
                            !.NUM_TRANSACTIONS = MaxTransactions,
                            !.COMPROMISE_CARD_PROBABILITY = Prob],
      [DefaultConfig EXCEPT !.COMPROMISE_CARD_PROBABILITY = 0],
      [DefaultConfig EXCEPT !.NUM_CARDS = 1, !.NUM_TRANSACTIONS = 1,
                            !.COMPROMISE_CARD_PROBABILITY = Prob,
                            !.FRAUD_INJECTION_PROBABILITY = Prob],
      [DefaultConfig EXCEPT !.NUM_CARDS = 0],
      [DefaultConfig EXCEPT !.NUM_CARDS = 1,
                            !.COMPROMISE_CARD_PROBABILITY = 1500],
      [DefaultConfig EXCEPT !.NUM_CARDS = 1,
                            !.COMPROMISE_CARD_PROBABILITY = Prob,
                            !.AVG_TRANSACTION_DELAY_SECONDS = 0] }

(***************************************************************************)
(* The outcomes of the random draws.                                       *)
(***************************************************************************)

\* random.random(), in thousandths: the lowest value it returns and a value
\* close to 1.
RandomDraws == {0, 999}

\* random.uniform(25.0, 65.0) and random.uniform(-125.0, 40.0): the home
\* coordinates drawn at bootstrap, in sub units.
HomeLatDraws == {25 * SubDeg, 65 * SubDeg - 1}

HomeLonDraws == {-125 * SubDeg}

\* floor(x * f / 1000) for x >= 0 and a fraction f in thousandths.
Frac(x, f) == (x \div Prob) * f + (((x % Prob) * f) \div Prob)

\* random.uniform(a, b) is a + (b - a) * random.random(): the value at
\* fraction u (in thousandths) of the way from a to b.
uniform(a, b, u) == a + Sgn(b - a) * Frac(Abs(b - a), u)

\* Fractions drawn for the location radius (0: the lower end of the range).
RadiusDraws == {0, 999}

\* Fractions drawn for the latitude and the longitude offset: 500 is the
\* middle of [-radius, radius], offset 0.
DeltaLatDraws == {500, 502}

DeltaLonDraws == {500}

\* Fraction drawn for the amount: close to the upper end of the range.
AmountDraws == {999}

\* random.expovariate(1.0 / avg) is avg * E with E >= 0 exponentially
\* distributed with mean 1: the multiples E drawn.
ExpDraws == {1, 6}

\* The fractions of [0.5, 0.9] * required_time_seconds drawn by line 129,
\* in thousandths of required_time_seconds.
FactorDraws == {500, 900}

\* datetime.datetime.now(): the clock value at the start of the run (ms).
StartTimes == {0}

\* Outcomes of send_to_kinesis: TRUE (sent), FALSE (an exception was caught).
SinkDraws == BOOLEAN

(***************************************************************************)
(* State.                                                                  *)
(***************************************************************************)

VARIABLES
    pc,            \* "start", "loop", "done" or "crashed" (uncaught exception)
    cfg,           \* the configuration constants of this run
    cards_data,    \* card index -> card record
    current_time,  \* the shared clock (ms)
    i,             \* iterations of the main loop completed
    tx,            \* transaction_data of the last iteration, <<>> before it
    printed,       \* number of JSON lines written to standard output
    sent,          \* number of calls of send_to_kinesis
    failed,        \* number of calls of send_to_kinesis that returned False
    step,          \* what the last iteration did (history), <<>> before it
    forced_seen,   \* an iteration has rewritten the clock at line 130 (history)
    sample,        \* a call of generate_location_around on its own: its
                   \* arguments, draws and result
    started_at,    \* the clock value read at line 92 (history)
    twin           \* a second run made with the same draws of the random
                   \* module: its cards, clock and last record

vars == <<pc, cfg, cards_data, current_time, i, tx, printed, sent, failed,
          step, forced_seen, sample, started_at, twin>>

\* Python's None, and a present value.
None == <<>>

Some(v) == <<v>>

\* A card as created at lines 81-88 from its three draws.
NewCard(home_lat, home_lon, r, c) ==
    [ HomeLatitude    |-> round6(home_lat),
      HomeLongitude   |-> round6(home_lon),
      IsCompromised   |-> r < c.COMPROMISE_CARD_PROBABILITY,
      LastTxTimestamp |-> None,
      LastTxLatitude  |-> None,
      LastTxLongitude |-> None ]

\* The cards the bootstrap loop can create for one index.
CardDraws(c) ==
    { NewCard(la, lo, r, c) :
        la \in HomeLatDraws, lo \in HomeLonDraws, r \in RandomDraws }

\* Line 77: card_id = f"CARD_{k:04d}", a numeral of at least four digits,
\* represented by the number it spells.
card_id_of(k) == k

\* The keys of cards_data after the loop of lines 76-88.
CardIds(c) == { card_id_of(k) : k \in 0 .. (c.NUM_CARDS - 1) }

\* Line 94: the state of the loop after its n-th iteration has ended.
LoopTest(n, c) == IF n < c.NUM_TRANSACTIONS THEN "loop" ELSE "done"

Init ==
    /\ pc = "start"
    /\ cfg \in Configs
    /\ cards_data = <<>>
    /\ current_time = 0
    /\ i = 0
    /\ tx = None
    /\ printed = 0
    /\ sent = 0
    /\ failed = 0
    /\ step = None
    /\ forced_seen = FALSE
    /\ sample = None
    /\ started_at = None
    /\ twin = None

\* Lines 74-92: the card population is created and the clock is read.
Bootstrap ==
    /\ pc = "start"
    /\ cards_data' \in [CardIds(cfg) -> CardDraws(cfg)]
    /\ current_time' \in StartTimes
    /\ started_at' = Some(current_time')
    /\ pc' = LoopTest(0, cfg)
    /\ UNCHANGED <<cfg, i, tx, printed, sent, failed, step, forced_seen, sample,
                   twin>>

(***************************************************************************)
(* One iteration of the main loop (lines 94-187).                          *)
(***************************************************************************)

\* A fraud decision that leaves out the test of the card's flag.
FraudDecisionIgnoresCard(card_info, r, c) ==
    r < c.FRAUD_INJECTION_PROBABILITY

\* Line 104: the transaction is fraudulent; r is the random.random() draw.
FraudDecision(card_info, r, c) ==
    card_info.IsCompromised /\ r < c.FRAUD_INJECTION_PROBABILITY

\* Python truth value of a nullable datetime: None is false, any datetime
\* is true.
TruthyTime(v) == v # None

\* Python truth value of a nullable float: None and 0.0 are false.
TruthyFloat(v) == v # None /\ v[1] # 0

\* Line 115: the test guarding the velocity check.
HasPriorTx(card_info) ==
    TruthyTime(card_info.LastTxTimestamp) /\ TruthyFloat(card_info.LastTxLatitude)

\* A velocity test that always passes.
VelocityAlwaysBelow(distance_m, time_delta_ms) == TRUE

\* Line 122-124: velocity_kmh < HIGH_VELOCITY_THRESHOLD_KMH, where
\* velocity_kmh = (distance_km / time_delta_seconds) * 3600, for a distance
\* in metres and a positive time in ms (both sides divided by 100).
VelocityBelowThreshold(distance_m, time_delta_ms) ==
    distance_m * 36 < (HIGH_VELOCITY_THRESHOLD_KMH \div 100) * time_delta_ms

\* Line 128: required_time_seconds = distance_km / threshold * 3600, in ms.
required_time(distance_m) ==
    (distance_m * 36) \div (HIGH_VELOCITY_THRESHOLD_KMH \div 100)

\* A delay without the floor of one second.
simulated_short_delay_unfloored(required_ms, f) == Frac(required_ms, f)

\* Line 129: max(1, random.uniform(required * 0.5, required * 0.9)), in ms,
\* for the drawn fraction f of required_time_seconds.
simulated_short_delay(required_ms, f) == Max2(1000, Frac(required_ms, f))

\* A generate_timestamp that subtracts the increment.
generate_timestamp_backwards(start_time, increment_ms) ==
    start_time - increment_ms

\* generate_timestamp (lines 53-55).
generate_timestamp(start_time, increment_ms) == start_time + increment_ms

\* Lines 34-35: random.uniform(-radius, radius) for the fractions in U.
Offsets(radius, U) == { uniform(-radius, radius, u) : u \in U }

\* The points generate_location_around(lat, lon, max_distance) can return
\* for the offset fractions in LatU and LonU.
Locations(lat, lon, max_distance_m, LatU, LonU) ==
    { generate_location_around(lat, lon, delta_lat, delta_lon) :
        delta_lat \in Offsets(radius_deg_lat(max_distance_m), LatU),
        delta_lon \in Offsets(radius_deg_lon(lat, max_distance_m), LonU) }

\* random.random() < 0.5 at line 124: the outcomes of the draw.
HalfDraws == BOOLEAN

\* Lines 115-135 for one outcome of the draws: what the fraud path does to
\* the clock, given the distance line 118 computes (used only when the
\* card has a prior transaction), the outcome `half` of the draw of line
\* 124, the fraction f of line 129 and the multiple e of line 134.  The
\* result is [kind, time]: "forced" (line 130), "advance" (lines 134-135),
\* "keep" (no assignment to current_time) or "error" (ZeroDivisionError
\* in 1.0 / AVG_TRANSACTION_DELAY_SECONDS).
FraudClockDraw(card_info, now, distance, c, half, f, e) ==
    IF HasPriorTx(card_info)
    THEN LET last == card_info.LastTxTimestamp[1]
             time_delta == now - last
         IN  IF time_delta > 0
             THEN IF VelocityBelowThreshold(distance, time_delta) /\ half
                  THEN [kind |-> "forced",
                        time |-> last + simulated_short_delay(
                                            required_time(distance), f)]
                  ELSE [kind |-> "keep", time |-> now]
             ELSE IF c.AVG_TRANSACTION_DELAY_SECONDS = 0
                  THEN [kind |-> "error", time |-> now]
                  ELSE [kind |-> "advance",
                        time |-> generate_timestamp(now,
                                     c.AVG_TRANSACTION_DELAY_SECONDS * e)]
    ELSE [kind |-> "keep", time |-> now]

\* Lines 118-121: the distance from the card's previous merchant (0 stands
\* for the value never computed when the card has none).
PriorDistance(card_info, merchant) ==
    IF card_info.LastTxLatitude = None \/ card_info.LastTxLongitude = None
    THEN 0
    ELSE haversine(card_info.LastTxLatitude[1], card_info.LastTxLongitude[1],
                   merchant[1], merchant[2])

\* Lines 115-135 over all the draws.
FraudClock(card_info, now, merchant, c) ==
    LET distance == PriorDistance(card_info, merchant)
    IN  { FraudClockDraw(card_info, now, distance, c, half, f, e) :
            half \in HalfDraws, f \in FactorDraws, e \in ExpDraws }

\* Lines 146-148 for the multiple e drawn.
NormalClockDraw(now, c, e) ==
    IF c.AVG_TRANSACTION_DELAY_SECONDS = 0
    THEN [kind |-> "error", time |-> now]
    ELSE [kind |-> "advance",
          time |-> generate_timestamp(now, c.AVG_TRANSACTION_DELAY_SECONDS * e)]

\* Lines 146-148: what the normal path does to the clock.
NormalClock(now, c) == { NormalClockDraw(now, c, e) : e \in ExpDraws }

\* Lines 155-168: transaction_data.  Timestamp is the clock formatted to
\* the second ('%Y-%m-%dT%H:%M:%SZ').
TransactionData(card_id, card_info, now, amount, merchant, is_fraud) ==
    [ CardID            |-> card_id,
      Timestamp         |-> now \div 1000,
      Amount            |-> amount,
      MerchantLatitude  |-> merchant[1],
      MerchantLongitude |-> merchant[2],
      IsFraud           |-> is_fraud,
      HomeLatitude      |-> card_info.HomeLatitude,
      HomeLongitude     |-> card_info.HomeLongitude ]

\* An update that forgets the location.
UpdateCardTimeOnly(card_info, now, merchant) ==
    [card_info EXCEPT !.LastTxTimestamp = Some(now)]

\* An update that writes the location to the home keys.
UpdateCardOverwritesHome(card_info, now, merchant) ==
    [card_info EXCEPT !.LastTxTimestamp = Some(now),
                      !.LastTxLatitude  = Some(merchant[1]),
                      !.LastTxLongitude = Some(merchant[2]),
                      !.HomeLatitude    = merchant[1],
                      !.HomeLongitude   = merchant[2]]

\* An update that records only the first transaction of a card.
UpdateCardFirstOnly(card_info, now, merchant) ==
    IF card_info.LastTxTimestamp = None
    THEN [card_info EXCEPT !.LastTxTimestamp = Some(now),
                           !.LastTxLatitude  = Some(merchant[1]),
                           !.LastTxLongitude = Some(merchant[2])]
    ELSE card_info

\* Lines 180-183: the card's last-transaction fields after the iteration.
UpdateCard(card_info, now, merchant) ==
    [card_info EXCEPT !.LastTxTimestamp = Some(now),
                      !.LastTxLatitude  = Some(merchant[1]),
                      !.LastTxLongitude = Some(merchant[2])]

\* The break of line 178 taken when the send failed.
StopsOnSinkFailure(ok) == ok

\* Lines 175-178: whether the iteration goes on after send_to_kinesis
\* returned ok: it does in both cases (the break is commented out).
ContinuesAfterSink(ok) == TRUE

\* Lines 151-187: the record is assembled, printed, optionally sent, and
\* the card is updated.
Emit(card_id, is_fraud, amount, merchant, clock, ok) ==
    LET card_info == cards_data[card_id]
    IN  /\ clock.kind # "error"
        /\ current_time' = clock.time
        /\ tx' = Some(TransactionData(card_id, card_info, clock.time, amount,
                                      merchant, is_fraud))
        /\ printed' = printed + 1
        /\ sent' = IF cfg.SEND_TO_KINESIS THEN sent + 1 ELSE sent
        /\ failed' = IF cfg.SEND_TO_KINESIS /\ ~ok THEN failed + 1 ELSE failed
        /\ forced_seen' = (forced_seen \/ clock.kind = "forced")
        /\ i' = i + 1
        /\ IF cfg.SEND_TO_KINESIS => ContinuesAfterSink(ok)
           THEN /\ cards_data' =
                     [cards_data EXCEPT ![card_id] =
                                          UpdateCard(card_info, clock.time, merchant)]
                /\ pc' = LoopTest(i + 1, cfg)
           ELSE /\ cards_data' = cards_data
                /\ pc' = "done"
        /\ step' = Some([ card     |-> card_id,
                          is_fraud |-> is_fraud,
                          kind     |-> clock.kind,
                          before   |-> current_time,
                          prev     |-> card_info,
                          cards_before |-> cards_data,
                          sink     |-> IF ~cfg.SEND_TO_KINESIS THEN "off"
                                       ELSE IF ok THEN "ok" ELSE "failed" ])
        /\ UNCHANGED <<cfg, sample, started_at, twin>>

\* The outcomes of send_to_kinesis that matter to this run.
SinkOutcomes == IF cfg.SEND_TO_KINESIS THEN SinkDraws ELSE {TRUE}

\* Line 104 for every draw of random.random(): the fraud decisions possible.
FraudOutcomes(card_info, c) ==
    { FraudDecision(card_info, r, c) : r \in RandomDraws }

\* Lines 141-145: the merchant locations of a normal transaction.
NormalLocations(card_info) ==
    UNION { Locations(card_info.HomeLatitude, card_info.HomeLongitude,
                      uniform(0, LOCATION_VARIATION_KM_NORMAL * 1000, ur),
                      DeltaLatDraws, DeltaLonDraws) : ur \in RadiusDraws }

\* The offsets in [-radius, radius] among those of `special`.
Within(radius, special) == { d \in special : -radius <= d /\ d <= radius }

\* The points generate_location_around(lat, lon, max_distance) returns
\* when the latitude offset drawn is the one that lands on the equator
\* (delta_lat = -lat, when the radius reaches that far).
EquatorLocations(lat, lon, max_distance_m) ==
    { generate_location_around(lat, lon, delta_lat, delta_lon) :
        delta_lat \in Within(radius_deg_lat(max_distance_m), {-(lat * SubDiv)}),
        delta_lon \in Offsets(radius_deg_lon(lat, max_distance_m), DeltaLonDraws) }

\* The radii random.uniform draws at line 111, in metres.
FraudRadii ==
    { uniform(LOCATION_VARIATION_KM_NORMAL * 2 * 1000,
              LOCATION_VARIATION_KM_FRAUD * 1000, ur) : ur \in RadiusDraws }

\* Lines 108-112: the merchant locations of a fraudulent transaction.
FraudLocations(card_info) ==
    UNION { Locations(card_info.HomeLatitude, card_info.HomeLongitude,
                      max_distance_m, DeltaLatDraws, DeltaLonDraws)
            \cup EquatorLocations(card_info.HomeLatitude,
                                  card_info.HomeLongitude, max_distance_m) :
              max_distance_m \in FraudRadii }

\* Lines 139 and 106: the amounts, in cents.
NormalAmounts ==
    { uniform(NORMAL_AMOUNT_RANGE[1], NORMAL_AMOUNT_RANGE[2], ua) : ua \in AmountDraws }

FraudAmounts ==
    { uniform(FRAUD_AMOUNT_RANGE[1], FRAUD_AMOUNT_RANGE[2], ua) : ua \in AmountDraws }

\* An iteration that takes the normal path (lines 137-148).
NormalStep ==
    /\ pc = "loop"
    /\ \E card_id \in DOMAIN cards_data :
         LET card_info == cards_data[card_id]
         IN  /\ FALSE \in FraudOutcomes(card_info, cfg)
             /\ \E amount \in NormalAmounts, ok \in SinkOutcomes,
                   merchant \in NormalLocations(card_info),
                   clock \in NormalClock(current_time, cfg) :
                  Emit(card_id, FALSE, amount, merchant, clock, ok)

\* An iteration that takes the fraud path (lines 104-135).
FraudStep ==
    /\ pc = "loop"
    /\ \E card_id \in DOMAIN cards_data :
         LET card_info == cards_data[card_id]
         IN  /\ TRUE \in FraudOutcomes(card_info, cfg)
             /\ \E merchant \in FraudLocations(card_info) :
                  \E clock \in FraudClock(card_info, current_time, merchant, cfg),
                     amount \in FraudAmounts, ok \in SinkOutcomes :
                    Emit(card_id, TRUE, amount, merchant, clock, ok)

\* An iteration that ends in an uncaught exception: random.choice of an
\* empty list (line 95), or a division by the zero average delay (lines
\* 134, 147).  The exception ends the run before the record is printed.
CrashStep ==
    /\ pc = "loop"
    /\ \/ DOMAIN cards_data = {}
       \/ /\ cfg.AVG_TRANSACTION_DELAY_SECONDS = 0
          /\ \E card_id \in DOMAIN cards_data :
               LET card_info == cards_data[card_id]
               IN  \/ /\ FALSE \in FraudOutcomes(card_info, cfg)
                      /\ \E clock \in NormalClock(current_time, cfg) :
                           clock.kind = "error"
                   \/ /\ TRUE \in FraudOutcomes(card_info, cfg)
                      /\ \E merchant \in FraudLocations(card_info) :
                           \E clock \in FraudClock(card_info, current_time,
                                                   merchant, cfg) :
                             clock.kind = "error"
    /\ pc' = "crashed"
    /\ UNCHANGED <<cfg, cards_data, current_time, i, tx, printed, sent, failed,
                   step, forced_seen, sample, started_at, twin>>

Next == Bootstrap \/ NormalStep \/ FraudStep \/ CrashStep

Spec == Init /\ [][Next]_vars

(***************************************************************************)
(* generate_location_around on its own: the inputs are the home            *)
(* coordinates and the radii the main loop passes to it, the draws cover   *)
(* the ends and the middle of the offset ranges and the offsets that land  *)
(* on the equator and next to the antimeridian.                            *)
(***************************************************************************)

\* Home coordinates (microdegrees) the bootstrap can produce.
GeoLats == { round6(x) : x \in HomeLatDraws }

GeoLons == { round6(x) : x \in {-125 * SubDeg, -100 * SubDeg - 2, 40 * SubDeg - 1} }

\* Fractions of the offset ranges drawn.
GeoDraws == {0, 250, 500, 999}

\* A call generate_location_around(lat, lon, max_distance) of the given
\* kind, with its draws.
Sample(kind, lat, lon, max_distance_m) ==
    LET rlat == radius_deg_lat(max_distance_m)
        rlon == radius_deg_lon(lat, max_distance_m)
    IN  \E delta_lat \in Offsets(rlat, GeoDraws)
                          \cup Within(rlat, {-(lat * SubDiv)}),
           delta_lon \in Offsets(rlon, GeoDraws)
                          \cup Within(rlon, {-(lon * SubDiv + 180 * SubDeg) - 1,
                                             -(lon * SubDiv + 180 * SubDeg)}) :
          sample' = Some([ kind         |-> kind,
                           lat          |-> lat,
                           lon          |-> lon,
                           max_distance |-> max_distance_m,
                           out          |-> generate_location_around(
                                                lat, lon, delta_lat, delta_lon) ])

\* Lines 141-145 for a home and a radius draw.
SampleNormal ==
    /\ pc = "sample"
    /\ \E lat \in GeoLats, lon \in GeoLons, ur \in RadiusDraws :
         Sample("normal", lat, lon,
                uniform(0, LOCATION_VARIATION_KM_NORMAL * 1000, ur))
    /\ UNCHANGED <<pc, cfg, cards_data, current_time, i, tx, printed, sent,
                   failed, step, forced_seen, started_at, twin>>

\* Lines 108-112 for a home and a radius draw.
SampleFraud ==
    /\ pc = "sample"
    /\ \E lat \in GeoLats, lon \in GeoLons, ur \in RadiusDraws :
         Sample("fraud", lat, lon,
                uniform(LOCATION_VARIATION_KM_NORMAL * 2 * 1000,
                        LOCATION_VARIATION_KM_FRAUD * 1000, ur))
    /\ UNCHANGED <<pc, cfg, cards_data, current_time, i, tx, printed, sent,
                   failed, step, forced_seen, started_at, twin>>

GeoInit ==
    /\ pc = "sample"
    /\ cfg = DefaultConfig
    /\ cards_data = <<>>
    /\ current_time = 0
    /\ i = 0
    /\ tx = None
    /\ printed = 0
    /\ sent = 0
    /\ failed = 0
    /\ step = None
    /\ forced_seen = FALSE
    /\ sample = None
    /\ started_at = None
    /\ twin = None

GeoNext == SampleNormal \/ SampleFraud

SpecGeo == GeoInit /\ [][GeoNext]_vars

(***************************************************************************)
(* Two runs side by side.  Both make the same draws from the random        *)
(* module (the same seed); what a run reads from outside that module, the  *)
(* wall clock of line 92 and the uuid4 of line 151 (os.urandom), is drawn  *)
(* for each run on its own.                                                *)
(***************************************************************************)

\* datetime.datetime.now() as read by two runs started at different times.
NowReads == {0, 1500}

\* uuid.uuid4(): the identifiers it can return.
UuidDraws == {1, 2}

\* random.randint(1000, 9999) of line 152.
MerchantDraws == {1000}

\* Lines 151-161: the record with its two identifiers.
WithIds(record, transaction_id, merchant_id) ==
    [ TransactionID |-> transaction_id,
      MerchantID    |-> merchant_id,
      Record        |-> record ]

\* Lines 95-183 as a function of the run's state (its cards and clock)
\* and of the draws d of the iteration: the cards and the clock after it,
\* the record, and what was done to the clock.
Iteration(run, c, d) ==
    LET card_info == run.cards_data[d.card]
        is_fraud  == FraudDecision(card_info, d.r, c)
        max_distance_m ==
            IF is_fraud
            THEN uniform(LOCATION_VARIATION_KM_NORMAL * 2 * 1000,
                         LOCATION_VARIATION_KM_FRAUD * 1000, d.ur)
            ELSE uniform(0, LOCATION_VARIATION_KM_NORMAL * 1000, d.ur)
        rlat == radius_deg_lat(max_distance_m)
        rlon == radius_deg_lon(card_info.HomeLatitude, max_distance_m)
        merchant ==
            generate_location_around(card_info.HomeLatitude,
                                     card_info.HomeLongitude,
                                     uniform(-rlat, rlat, d.ulat),
                                     uniform(-rlon, rlon, d.ulon))
        amount ==
            IF is_fraud
            THEN uniform(FRAUD_AMOUNT_RANGE[1], FRAUD_AMOUNT_RANGE[2], d.ua)
            ELSE uniform(NORMAL_AMOUNT_RANGE[1], NORMAL_AMOUNT_RANGE[2], d.ua)
        clock ==
            IF is_fraud
            THEN FraudClockDraw(card_info, run.current_time,
                                PriorDistance(card_info, merchant), c,
                                d.half, d.f, d.e)
            ELSE NormalClockDraw(run.current_time, c, d.e)
    IN  [ cards_data   |-> [run.cards_data EXCEPT ![d.card] =
                               UpdateCard(card_info, clock.time, merchant)],
          current_time |-> clock.time,
          record       |-> TransactionData(d.card, card_info, clock.time,
                                           amount, merchant, is_fraud),
          kind         |-> clock.kind ]

\* The draws an iteration makes from the random module.
IterationDraws(ids) ==
    [ card : ids, r : RandomDraws, ur : RadiusDraws, ulat : DeltaLatDraws,
      ulon : DeltaLonDraws, ua : AmountDraws, half : HalfDraws,
      f : FactorDraws, e : ExpDraws, mid : MerchantDraws ]

\* The configuration of the two runs: one compromised card.
TwinConfig ==
    [DefaultConfig EXCEPT !.NUM_CARDS = 1, !.COMPROMISE_CARD_PROBABILITY = Prob]

TwinInit ==
    /\ pc = "twin_start"
    /\ cfg = TwinConfig
    /\ cards_data = <<>>
    /\ current_time = 0
    /\ i = 0
    /\ tx = None
    /\ printed = 0
    /\ sent = 0
    /\ failed = 0
    /\ step = None
    /\ forced_seen = FALSE
    /\ sample = None
    /\ started_at = None
    /\ twin = None

\* Lines 74-92 in both runs: the same cards, the clock each run reads.
TwinBootstrap ==
    /\ pc = "twin_start"
    /\ cards_data' \in [CardIds(cfg) -> CardDraws(cfg)]
    /\ current_time' \in NowReads
    /\ started_at' = Some(current_time')
    /\ \E now2 \in NowReads :
         twin' = Some([ cards_data   |-> cards_data',
                        current_time |-> now2,
                        tx           |-> None ])
    /\ pc' = "twin_loop"
    /\ UNCHANGED <<cfg, i, tx, printed, sent, failed, step, forced_seen, sample>>

\* One iteration of the main loop in both runs, with the same draws.
TwinStep ==
    /\ pc = "twin_loop"
    /\ i < cfg.NUM_TRANSACTIONS
    /\ \E d \in IterationDraws(DOMAIN cards_data) :
         LET a == Iteration([cards_data |-> cards_data,
                             current_time |-> current_time], cfg, d)
             b == Iteration(twin[1], cfg, d)
         IN  /\ a.kind # "error" /\ b.kind # "error"
             /\ cards_data' = a.cards_data
             /\ current_time' = a.current_time
             /\ \E u1 \in UuidDraws, u2 \in UuidDraws :
                  /\ tx' = Some(WithIds(a.record, u1, d.mid))
                  /\ twin' = Some([ cards_data   |-> b.cards_data,
                                    current_time |-> b.current_time,
                                    tx |-> Some(WithIds(b.record, u2, d.mid)) ])
    /\ i' = i + 1
    /\ printed' = printed + 1
    /\ UNCHANGED <<pc, cfg, sent, failed, step, forced_seen, sample, started_at>>

TwinNext == TwinBootstrap \/ TwinStep

SpecTwin == TwinInit /\ [][TwinNext]_vars

(***************************************************************************)
(* Properties.                                                             *)
(***************************************************************************)

\* The configurations section 7 of the specification calls valid.
ConfigValid(c) ==
    /\ c.NUM_CARDS > 0
    /\ c.NUM_TRANSACTIONS >= 0
    /\ c.FRAUD_INJECTION_PROBABILITY \in 0 .. Prob
    /\ c.COMPROMISE_CARD_PROBABILITY \in 0 .. Prob
    /\ c.AVG_TRANSACTION_DELAY_SECONDS > 0

\* The last iteration's summary and record, when there is one.
S == step[1]

T == tx[1]

\* The three last-transaction fields of a card are all absent / all present.
NoLastTx(k) ==
    k.LastTxTimestamp = None /\ k.LastTxLatitude = None /\ k.LastTxLongitude = None

FullLastTx(k) ==
    k.LastTxTimestamp # None /\ k.LastTxLatitude # None /\ k.LastTxLongitude # None

\* C1: a record flagged as fraud was emitted for a card flagged compromised
\* at bootstrap; with compromise probability 0.0 no record is flagged.
C1_FraudOnlyOnCompromised ==
    tx # None =>
        /\ T.IsFraud => S.prev.IsCompromised /\ cards_data[T.CardID].IsCompromised
        /\ cfg.COMPROMISE_CARD_PROBABILITY = 0 => ~T.IsFraud

\* A fraud record in a population that also holds a card not compromised.
C1_Witness ==
    /\ tx # None
    /\ T.IsFraud
    /\ \E c \in DOMAIN cards_data : ~cards_data[c].IsCompromised

\* The distance and the elapsed time between the last record and its
\* card's previous one (when the card had one).
PairDistance ==
    haversine(S.prev.LastTxLatitude[1], S.prev.LastTxLongitude[1],
              T.MerchantLatitude, T.MerchantLongitude)

PairElapsed == current_time - S.prev.LastTxTimestamp[1]

\* C2: after a forcing rewrite the elapsed time since the card's previous
\* transaction is less than the time the threshold velocity needs for the
\* distance, whatever the distance: elapsed_s < distance_km / 800 * 3600.
C2_ForcingReachesThreshold ==
    (step # None /\ S.kind = "forced") =>
        PairElapsed * (HIGH_VELOCITY_THRESHOLD_KMH \div 100) < PairDistance * 36

\* C3: every iteration either rewrites the clock by forcing or advances it
\* by a drawn increment; a fraud iteration that does not force advances
\* the clock as the normal path does.
C3_EveryStepForcesOrAdvances ==
    step # None =>
        \/ S.kind = "forced"
        \/ /\ S.kind = "advance"
           /\ \E e \in ExpDraws :
                current_time = S.before + cfg.AVG_TRANSACTION_DELAY_SECONDS * e

\* C4 as stated: an iteration without forcing never gives its card a
\* timestamp earlier than the card's previous one.
C4_RewindOnlyByForcingOnCard ==
    (step # None /\ S.prev.LastTxTimestamp # None /\ S.kind # "forced") =>
        current_time >= S.prev.LastTxTimestamp[1]

\* C4 as amended: an iteration without forcing never moves the shared
\* clock back, and a record earlier than its card's previous one comes
\* from an iteration without forcing, after an earlier iteration forced.
C4_RewindOnlyAfterForcing ==
    step # None =>
        /\ S.kind # "forced" => current_time >= S.before
        /\ (S.prev.LastTxTimestamp # None
              /\ current_time < S.prev.LastTxTimestamp[1])
             => (forced_seen /\ S.kind # "forced")

\* A record earlier than its card's previous one.
C4_Witness ==
    /\ step # None
    /\ S.prev.LastTxTimestamp # None
    /\ current_time < S.prev.LastTxTimestamp[1]

\* C5: after an iteration the chosen card's last-transaction fields are
\* the clock value and the merchant coordinates of the record, the other
\* cards are as before; the three fields of a card are absent together
\* (all cards before the first iteration) or present together.
C5_LastTxFields ==
    /\ \A c \in DOMAIN cards_data : NoLastTx(cards_data[c]) \/ FullLastTx(cards_data[c])
    /\ step = None => \A c \in DOMAIN cards_data : NoLastTx(cards_data[c])
    /\ step # None =>
         /\ T.CardID = S.card
         /\ T.Timestamp = current_time \div 1000
         /\ cards_data[S.card].LastTxTimestamp = Some(current_time)
         /\ cards_data[S.card].LastTxLatitude = Some(T.MerchantLatitude)
         /\ cards_data[S.card].LastTxLongitude = Some(T.MerchantLongitude)
         /\ \A c \in DOMAIN cards_data \ {S.card} :
               cards_data[c] = S.cards_before[c]

\* A fraud record has been emitted, its card had a transaction before, and
\* another card has had none yet.
C5_Witness ==
    /\ step # None
    /\ T.IsFraud
    /\ FullLastTx(S.prev)
    /\ \E c \in DOMAIN cards_data : NoLastTx(cards_data[c])

\* C6: after bootstrap there are exactly NUM_CARDS cards, each with its own
\* identifier and a home in [25, 65] x [-125, 40]; no iteration changes a
\* home or a compromise flag; a record carries its card's home.
C6_CardsFixed ==
    pc \in {"loop", "done", "crashed"} =>
        /\ DOMAIN cards_data = CardIds(cfg)
        /\ Cardinality(DOMAIN cards_data) = Max2(0, cfg.NUM_CARDS)
        /\ \A c \in DOMAIN cards_data :
              /\ cards_data[c].HomeLatitude >= 25 * MicroDeg
              /\ cards_data[c].HomeLatitude <= 65 * MicroDeg
              /\ cards_data[c].HomeLongitude >= -125 * MicroDeg
              /\ cards_data[c].HomeLongitude <= 40 * MicroDeg
        /\ step # None =>
              /\ DOMAIN S.cards_before = DOMAIN cards_data
              /\ \A c \in DOMAIN cards_data :
                    /\ cards_data[c].HomeLatitude = S.cards_before[c].HomeLatitude
                    /\ cards_data[c].HomeLongitude = S.cards_before[c].HomeLongitude
                    /\ cards_data[c].IsCompromised = S.cards_before[c].IsCompromised
              /\ T.HomeLatitude = cards_data[T.CardID].HomeLatitude
              /\ T.HomeLongitude = cards_data[T.CardID].HomeLongitude

\* A run over two cards with different homes has ended.
C6_Witness ==
    /\ pc = "done"
    /\ step # None
    /\ \E c, d \in DOMAIN cards_data :
         cards_data[c].HomeLatitude # cards_data[d].HomeLatitude

\* C7: with the external sink enabled (and a valid configuration) the loop
\* runs NUM_TRANSACTIONS iterations whatever the sink returns: each record
\* is printed and handed to the sink once, a failed send is followed by
\* the card update and by the next iteration, and the run ends with
\* NUM_TRANSACTIONS records printed.
C7_SinkFailuresDoNotStopLoop ==
    (cfg.SEND_TO_KINESIS /\ ConfigValid(cfg)) =>
        /\ pc \in {"start", "loop", "done"}
        /\ printed = i /\ sent = printed /\ failed <= sent
        /\ i <= cfg.NUM_TRANSACTIONS
        /\ pc = "done" => printed = cfg.NUM_TRANSACTIONS
        /\ pc = "loop" => (i < cfg.NUM_TRANSACTIONS /\ DOMAIN cards_data # {})
        /\ (step # None /\ S.sink = "failed") =>
              /\ cards_data[S.card].LastTxTimestamp = Some(current_time)
              /\ pc = IF i < cfg.NUM_TRANSACTIONS THEN "loop" ELSE "done"

\* A run in which every send failed has ended.
C7_Witness ==
    /\ cfg.SEND_TO_KINESIS
    /\ pc = "done"
    /\ cfg.NUM_TRANSACTIONS >= 2
    /\ failed = cfg.NUM_TRANSACTIONS
    /\ printed = cfg.NUM_TRANSACTIONS

\* C8: a normal transaction's merchant is at most
\* LOCATION_VARIATION_KM_NORMAL from the card's home (to the metre).
C8_NormalWithinRadius ==
    (sample # None /\ sample[1].kind = "normal") =>
        haversine(sample[1].lat, sample[1].lon, sample[1].out[1], sample[1].out[2])
            <= LOCATION_VARIATION_KM_NORMAL * 1000 + 1

\* C9: generate_location_around returns a latitude in [-90, 90] and a
\* longitude in [-180, 180).
C9_SampleInRange ==
    sample # None =>
        /\ sample[1].out[1] >= -90 * MicroDeg
        /\ sample[1].out[1] <= 90 * MicroDeg
        /\ sample[1].out[2] >= -180 * MicroDeg
        /\ sample[1].out[2] < 180 * MicroDeg

\* C10: with an invalid configuration no iteration is entered and no
\* record is emitted.
C10_InvalidConfigFailsFast ==
    ~ConfigValid(cfg) => (i = 0 /\ printed = 0 /\ pc # "done")

\* C11: two runs with the same configuration and the same draws of the
\* random generator emit the same records, field for field, TransactionID
\* and Timestamp included.
C11_SameSeedSameOutput ==
    (twin # None /\ tx # None) => tx = twin[1].tx

\* C12: with one card, one transaction and both probabilities 1.0, the
\* single record is flagged as fraud, its amount is within the fraud amount
\* range and its merchant is between 2 x LOCATION_VARIATION_KM_NORMAL and
\* LOCATION_VARIATION_KM_FRAUD from the card's home.
C12_SingleFraudRecord ==
    ( /\ cfg.NUM_CARDS = 1 /\ cfg.NUM_TRANSACTIONS = 1
      /\ cfg.COMPROMISE_CARD_PROBABILITY = Prob
      /\ cfg.FRAUD_INJECTION_PROBABILITY = Prob
      /\ tx # None ) =>
        /\ T.IsFraud
        /\ T.Amount >= FRAUD_AMOUNT_RANGE[1] /\ T.Amount <= FRAUD_AMOUNT_RANGE[2]
        /\ LET d == haversine(T.HomeLatitude, T.HomeLongitude,
                              T.MerchantLatitude, T.MerchantLongitude)
           IN  /\ d >= LOCATION_VARIATION_KM_NORMAL * 2 * 1000
               /\ d <= LOCATION_VARIATION_KM_FRAUD * 1000

\* C13: the clock is rewritten by forcing only in a fraud iteration whose
\* card has a prior transaction, with a positive elapsed time since it and
\* a velocity below the threshold; never in a normal iteration nor on a
\* card without a prior transaction.
C13_ForcingGuard ==
    step # None =>
        /\ S.kind = "forced" =>
             /\ S.is_fraud /\ T.IsFraud
             /\ FullLastTx(S.prev)
             /\ S.before - S.prev.LastTxTimestamp[1] > 0
             /\ PairDistance * 36 < (HIGH_VELOCITY_THRESHOLD_KMH \div 100)
                                      * (S.before - S.prev.LastTxTimestamp[1])
        /\ ~S.is_fraud => S.kind # "forced"
        /\ NoLastTx(S.prev) => S.kind # "forced"

\* A forcing iteration.
C13_Witness ==
    /\ step # None
    /\ S.kind = "forced"
    /\ S.is_fraud
    /\ current_time # S.before

\* C14: under a valid configuration, in a fraud iteration on a card with a
\* prior transaction, when the
\* elapsed time since the card's last timestamp is zero or negative, the
\* clock is not forced and advances by a drawn increment.
C14_NonPositiveElapsedAdvances ==
    ( /\ ConfigValid(cfg)
      /\ step # None
      /\ S.is_fraud
      /\ FullLastTx(S.prev)
      /\ S.before - S.prev.LastTxTimestamp[1] <= 0 ) =>
        /\ S.kind = "advance"
        /\ \E e \in ExpDraws :
             current_time = S.before + cfg.AVG_TRANSACTION_DELAY_SECONDS * e

\* C15: a forcing iteration leaves the clock earlier than it was at the
\* start of the iteration (a rewind, never a forward jump); the rewritten
\* value is the one the run goes on from.
C15_ForcingRewinds ==
    (step # None /\ S.kind = "forced") =>
        /\ current_time < S.before
        /\ cards_data[S.card].LastTxTimestamp = Some(current_time)

\* C16: under a valid configuration, in a fraud iteration on a card that
\* has had a transaction, the test of line 115 passes and the elapsed time
\* is examined whatever the previous coordinates are (a previous latitude
\* of exactly 0.0 included): the clock is forced, advanced, or kept only
\* with a positive elapsed time.
C16_PriorTxAlwaysChecked ==
    ( /\ ConfigValid(cfg)
      /\ step # None
      /\ S.is_fraud
      /\ FullLastTx(S.prev) ) =>
        /\ HasPriorTx(S.prev)
        /\ S.kind = "keep" => S.before - S.prev.LastTxTimestamp[1] > 0

\* C17, in every state: after an iteration the shared clock is the
\* last-transaction timestamp of the card just chosen (the value the next
\* iteration starts from); a forcing iteration's card had a timestamp below
\* the clock it started from; with one card no iteration forces and no
\* iteration lowers the clock.
C17_ClockIsLastCardsTime ==
    step # None =>
        /\ cards_data[S.card].LastTxTimestamp = Some(current_time)
        /\ S.kind = "forced" => S.prev.LastTxTimestamp[1] < S.before
        /\ cfg.NUM_CARDS = 1 =>
             /\ ~forced_seen
             /\ S.kind # "forced"
             /\ current_time >= S.before
             /\ T.Timestamp >= S.before \div 1000

\* C17, in every step: an iteration starts from the clock value that is the
\* timestamp of the card chosen by the iteration before it, and does not
\* force when it chooses that card again.
C17_NoForcingOnSameCard ==
    (step # None /\ step' # None /\ i' = i + 1) =>
        /\ step'[1].before = cards_data[S.card].LastTxTimestamp[1]
        /\ step'[1].card = S.card => step'[1].kind # "forced"

\* C17: the clock an iteration starts from is the timestamp of the card
\* chosen by the iteration before; a card chosen twice in a row is not
\* forced the second time; with one card forcing never occurs and the
\* emitted clock values never decrease.
C17_ConsecutiveSteps ==
    []C17_ClockIsLastCardsTime /\ [][C17_NoForcingOnSameCard]_vars

\* The same card has been chosen twice in a row on the fraud path, in a
\* population of two cards.
C17_Witness ==
    /\ step # None
    /\ i >= 2
    /\ S.is_fraud
    /\ Cardinality(DOMAIN cards_data) = 2
    /\ S.prev.LastTxTimestamp = Some(S.before)
    /\ HasPriorTx(S.prev)

\* C18: a forcing iteration leaves the clock at least one second after the
\* chosen card's previous timestamp, so the forced record's time is later
\* than that of the card's previous record (also once formatted to the
\* second).
C18_ForcedAtLeastOneSecondLater ==
    (step # None /\ S.kind = "forced") =>
        /\ current_time >= S.prev.LastTxTimestamp[1] + 1000
        /\ current_time > S.prev.LastTxTimestamp[1]
        /\ T.Timestamp > S.prev.LastTxTimestamp[1] \div 1000

\* A forcing iteration whose delay is exactly the floor of one second.
C18_Witness ==
    /\ step # None
    /\ S.kind = "forced"
    /\ current_time = S.prev.LastTxTimestamp[1] + 1000

\* C19: under a valid configuration, a record's clock value is lower than
\* that of the record emitted just before it only if its iteration forced;
\* an iteration that does not force never lowers the shared clock.
C19_DecreaseOnlyByForcing ==
    (ConfigValid(cfg) /\ step # None) =>
        /\ current_time < S.before => S.kind = "forced"
        /\ (i >= 2 /\ T.Timestamp < S.before \div 1000) => S.kind = "forced"
        /\ S.kind \in {"keep", "advance"} => current_time >= S.before

\* A forcing iteration has lowered the clock below the previous record's.
C19_Witness ==
    /\ step # None
    /\ i >= 2
    /\ S.kind = "forced"
    /\ T.Timestamp < S.before \div 1000

\* C20: the shared clock and every present last-transaction timestamp are
\* at or after the clock value read at the start of the run, and so is the
\* time of every record.
C20_NeverBeforeStart ==
    started_at # None =>
        /\ current_time >= started_at[1]
        /\ \A c \in DOMAIN cards_data :
             cards_data[c].LastTxTimestamp # None =>
                 cards_data[c].LastTxTimestamp[1] >= started_at[1]
        /\ tx # None => T.Timestamp >= started_at[1] \div 1000

\* The clock has been rewound by forcing at least once and a later record
\* has been emitted.
C20_Witness ==
    /\ started_at # None
    /\ forced_seen
    /\ step # None
    /\ S.kind # "forced"
    /\ current_time < S.cards_before[S.card].LastTxTimestamp[1]

=============================================================================
